---- MODULE Spec2Model ----
(***************************************************************************)
(* The TLV iterator of boot/bootutil/src/tlv.c: bootutil_tlv_iter_begin,   *)
(* bootutil_tlv_iter_next and bootutil_tlv_iter_is_prot, run against a     *)
(* byte-addressed flash area that holds an image trailer.                  *)
(*                                                                         *)
(* A uint32_t offset is represented by the integer that has the same       *)
(* 32 bits in two's complement (0xFFFFFFFC is -4), so that every value     *)
(* of the type fits the integers of the model checker; U32Add and U32Lt    *)
(* are the C operators + and < on that representation.                     *)
(***************************************************************************)
EXTENDS Integers, Sequences, FiniteSets, TLC

\* ------------------------------------------------------------------ bounds

\* Most TLV records a trailer of the model holds (both sub-areas together).
MaxRecs == 2
\* Payload lengths of the records are 0 .. MaxPayload.
MaxPayload == 1
\* Offset of the image trailer in the flash area (header size + image size).
TrailerStart == 2
\* Most bootutil_tlv_iter_next calls recorded after one successful begin.
MaxCalls == 3
\* The device may fail the k-th read of a call, k in 1 .. MaxFail.
MaxFail == 2

\* ------------------------------------------------------- program constants

\* sizeof(struct image_tlv_info): uint16_t it_magic, uint16_t it_tlv_tot
SizeofInfo == 4
\* sizeof(struct image_tlv): uint16_t it_type, uint16_t it_len
SizeofTlv == 4
\* bootutil/image.h
IMAGE_TLV_INFO_MAGIC == 26887
IMAGE_TLV_PROT_INFO_MAGIC == 26888
IMAGE_TLV_ANY == 65535
\* Largest int32_t; offsets above it are the negative integers.
MaxInt32 == 2147483647

\* A null pointer; a null struct image_header pointer.
NULL == "NULL"
NULL_HDR == [null |-> TRUE]

\* ------------------------------------------------------- uint32_t offsets

\* a + d in uint32_t arithmetic, for 0 <= d <= MaxInt32
U32Add(a, d) ==
    IF a >= 0 /\ a > MaxInt32 - d
    THEN (a - MaxInt32 - 1) + (d - MaxInt32 - 1)
    ELSE a + d

\* a < b as uint32_t values
U32Lt(a, b) == IF (a < 0) = (b < 0) THEN a < b ELSE b < 0

\* ------------------------------------------------------------ the trailer

RecTypes == {1, 2}

Records == [type : RecTypes, len : 0..MaxPayload]

\* A 16-bit field, little-endian.
EncU16(v) == <<v % 256, v \div 256>>

RECURSIVE Zeros(_)
Zeros(n) == IF n = 0 THEN <<>> ELSE <<0>> \o Zeros(n - 1)

EncRec(r) == EncU16(r.type) \o EncU16(r.len) \o Zeros(r.len)

RECURSIVE EncRecs(_)
EncRecs(rs) == IF rs = <<>> THEN <<>> ELSE EncRec(Head(rs)) \o EncRecs(Tail(rs))

EncInfo(magic, tot) == EncU16(magic) \o EncU16(tot)

\* Size of the protected sub-area, its info record included (0: no such area).
ProtSize(P) == IF P = <<>> THEN 0 ELSE SizeofInfo + Len(EncRecs(P))

\* The two accepted shapes:
\*   [protected-info][protected records][plain-info][general records]
\*   [plain-info][general records]
EncTrailer(P, G) ==
    (IF P = <<>> THEN <<>>
     ELSE EncInfo(IMAGE_TLV_PROT_INFO_MAGIC, ProtSize(P)) \o EncRecs(P))
    \o EncInfo(IMAGE_TLV_INFO_MAGIC, SizeofInfo + Len(EncRecs(G)))
    \o EncRecs(G)

\* What follows the trailer in the flash area: nothing (the area ends), or
\* bytes that read as a TLV header of type 1.
Tails == { <<>>, <<1, 0, 0, 0>> }

EncFlash(P, G, tail) == Zeros(TrailerStart) \o EncTrailer(P, G) \o tail

SeqsUpTo(S, n) == UNION { [1..k -> S] : k \in 0..n }

Layouts ==
    { pg \in SeqsUpTo(Records, MaxRecs) \X SeqsUpTo(Records, MaxRecs) :
        Len(pg[1]) + Len(pg[2]) <= MaxRecs }

\* Offsets of the headers of the records rs, the first of them at offset at.
RECURSIVE HdrOffsets(_, _)
HdrOffsets(rs, at) ==
    IF rs = <<>> THEN {}
    ELSE {at} \cup HdrOffsets(Tail(rs), at + SizeofTlv + Head(rs).len)

\* Offsets of the 16-bit fields of the trailer: those of its info records and
\* of its record headers.
FieldOffsets(P, G) ==
    LET gen == TrailerStart + ProtSize(P)
        structs == {TrailerStart, gen}
                   \cup HdrOffsets(P, TrailerStart + SizeofInfo)
                   \cup HdrOffsets(G, gen + SizeofInfo)
    IN structs \cup { o + 2 : o \in structs }

\* One 16-bit field at byte offset p overwritten with v: a trailer that is not
\* well formed (a wrong magic, a wrong total length, a wrong record length).
Mutate(fl, p, v) ==
    [i \in 1..Len(fl) |->
        IF i = p + 1 THEN v % 256 ELSE IF i = p + 2 THEN v \div 256 ELSE fl[i]]

MutVals == {0, 5, 65535}

\* ------------------------------------------------------------------ state

VARIABLES
    flash,    \* the bytes of the flash area from offset layout.base to its end
    layout,   \* what was encoded into flash: [P, G, wf, base]; wf = no field
              \* overwritten, base = the offset of the first byte of flash
    it,       \* struct image_tlv_iter
    last,     \* the call that returned last: its arguments, result and reads
              \* (filt: the filter and flag a successful begin was given)
    begun,    \* outcome of the most recent begin that was given all its inputs:
              \* none, ok, fail, or stale (failed after an earlier one succeeded)
    trace,    \* results of the next calls made since the last successful begin
    faulted   \* a read of such a call was failed by the device

vars == <<flash, layout, it, last, begun, trace, faulted>>

FAP == "fap"

\* struct image_header, the fields the iterator reads.
\* BOOT_TLV_OFF(hdr) is ih_hdr_size + ih_img_size.
BOOT_TLV_OFF(hdr) == U32Add(hdr.ih_img_size, hdr.ih_hdr_size)

Hdr(img, prot) ==
    [ih_hdr_size |-> TrailerStart, ih_img_size |-> img,
     ih_protect_tlv_size |-> prot]

\* The header the trailer in flash was encoded for.
GoodHdr == Hdr(layout.base, ProtSize(layout.P))

\* Headers a caller may pass: the right one, ones with another protected
\* size, one whose trailer offset is outside every flash area (0xFFFFFFFE).
Headers ==
    { GoodHdr, Hdr(layout.base, 0), Hdr(layout.base, 2 * SizeofInfo),
      Hdr(-4, 0) }

\* Type 1 stands for the type a caller looks for, type 2 for the others.
Filters == {1, IMAGE_TLV_ANY}

\* LOAD_IMAGE_DATA(hdr, fap, off, buf, 4): the read is bounds-checked against
\* the flash area. The model holds the bytes of the area from layout.base on:
\* the whole area (base 0), or the top of an area of 2^32 - 1 bytes, whose
\* last byte has offset 2^32 - 2 (base -Len(flash) - 1); a read below base
\* is one the device fails.
InArea(off) == off >= layout.base /\ off <= layout.base + Len(flash) - 4

Le16(off) ==
    flash[off - layout.base + 1] + 256 * flash[off - layout.base + 2]

LoadInfo(off) == [it_magic |-> Le16(off), it_tlv_tot |-> Le16(off + 2)]

LoadTlv(off) == [it_type |-> Le16(off), it_len |-> Le16(off + 2)]

\* A read succeeds when it lies in the area and the device does not fail it;
\* fail = k > 0 makes the k-th read of the call fail, n reads were made before.
ReadOk(off, n, fail) == InArea(off) /\ fail # n + 1

\* ----------------------------------------------- bootutil_tlv_iter_begin

BeginFailed_ZeroesCursor(itv, rd) ==
    [rc |-> -1, it |-> [itv EXCEPT !.tlv_off = 0], reads |-> rd]

\* return -1: nothing has been written to the iterator.
BeginFailed(itv, rd) == [rc |-> -1, it |-> itv, reads |-> rd]

BeginStore_NoProtSize(hdr, fap, type, prot, off_, info) ==
    [hdr |-> hdr, fap |-> fap, type |-> type, prot |-> prot,
     prot_end |-> U32Add(off_, hdr.ih_protect_tlv_size),
     tlv_end |-> U32Add(off_, info.it_tlv_tot),
     tlv_off |-> U32Add(off_, SizeofInfo)]

BeginStore_CursorAtStart(hdr, fap, type, prot, off_, info) ==
    [hdr |-> hdr, fap |-> fap, type |-> type, prot |-> prot,
     prot_end |-> U32Add(off_, hdr.ih_protect_tlv_size),
     tlv_end |-> U32Add(U32Add(off_, hdr.ih_protect_tlv_size), info.it_tlv_tot),
     tlv_off |-> off_]

\* The iterator fields written on the success path; info is the plain-info
\* record that was read last.
BeginStore(hdr, fap, type, prot, off_, info) ==
    [hdr |-> hdr, fap |-> fap, type |-> type, prot |-> prot,
     prot_end |-> U32Add(off_, hdr.ih_protect_tlv_size),
     tlv_end |-> U32Add(U32Add(off_, hdr.ih_protect_tlv_size), info.it_tlv_tot),
     tlv_off |-> U32Add(off_, SizeofInfo)]

\* The check of the (last read) info record's magic and the stores.
BeginFinish(itv, hdr, fap, type, prot, off_, info, rd) ==
    IF info.it_magic # IMAGE_TLV_INFO_MAGIC
    THEN BeginFailed(itv, rd)
    ELSE [rc |-> 0, it |-> BeginStore(hdr, fap, type, prot, off_, info),
          reads |-> rd]

\* hdr->ih_protect_tlv_size != info.it_tlv_tot is an error
ProtSizeMatches(hdr, info) == hdr.ih_protect_tlv_size = info.it_tlv_tot

NoProtDeclared_Ignored(hdr) == TRUE

\* without a protected-info record, hdr->ih_protect_tlv_size != 0 is an error
NoProtDeclared(hdr) == hdr.ih_protect_tlv_size = 0

\* itp is the iterator pointer (NULL or the iterator itv); the result is the
\* return code, the iterator afterwards and the offsets read. The trailer
\* offset is the one of the builds without MCUBOOT_SWAP_USING_OFFSET.
tlv_iter_begin(itp, itv, hdr, fap, type, prot, fail) ==
    IF itp = NULL \/ hdr = NULL_HDR \/ fap = NULL
    THEN BeginFailed(itv, <<>>)
    ELSE
      LET off_ == BOOT_TLV_OFF(hdr)
          info == LoadInfo(off_)
      IN
      IF ~ReadOk(off_, 0, fail)
      THEN BeginFailed(itv, <<off_>>)
      ELSE IF info.it_magic = IMAGE_TLV_PROT_INFO_MAGIC
      THEN
        IF ~ProtSizeMatches(hdr, info)
        THEN BeginFailed(itv, <<off_>>)
        ELSE
          LET off2 == U32Add(off_, info.it_tlv_tot)
          IN
          IF ~ReadOk(off2, 1, fail)
          THEN BeginFailed(itv, <<off_, off2>>)
          ELSE BeginFinish(itv, hdr, fap, type, prot, off_, LoadInfo(off2),
                           <<off_, off2>>)
      ELSE IF ~NoProtDeclared(hdr)
      THEN BeginFailed(itv, <<off_>>)
      ELSE BeginFinish(itv, hdr, fap, type, prot, off_, info, <<off_>>)

\* ------------------------------------------------ bootutil_tlv_iter_next

\* Result of a next call: return code, iterator afterwards, offsets read,
\* *off, *len, *type (0 when not written), and the value of tlv_off at the
\* start of the loop iteration that returned (at the call when none ran).
NextResult(rc, itv, rd, off, len, type, iter) ==
    [rc |-> rc, it |-> itv, reads |-> rd, off |-> off, len |-> len,
     type |-> type, iter |-> iter]

SkipInfo_Never(itv) == itv.tlv_off

\* The cursor at the read of one loop iteration: past the plain-info record
\* when the iteration starts on the end of a protected area.
SkipInfo(itv) ==
    IF itv.hdr.ih_protect_tlv_size > 0 /\ itv.tlv_off = itv.prot_end
    THEN U32Add(itv.tlv_off, SizeofInfo)
    ELSE itv.tlv_off

ProtExhausted_OnlyWithArea(itv) ==
    /\ itv.prot /\ itv.hdr.ih_protect_tlv_size > 0
    /\ ~U32Lt(itv.tlv_off, itv.prot_end)

\* The protected area is exhausted for a scan that asked for protected TLVs.
ProtExhausted(itv) == itv.prot /\ ~U32Lt(itv.tlv_off, itv.prot_end)

TypeMatches_Any(itv, tlv) == TRUE

TypeMatches(itv, tlv) == itv.type = IMAGE_TLV_ANY \/ tlv.it_type = itv.type

\* tlv_off += sizeof(tlv) + tlv.it_len
PastRecord(itv, tlv) ==
    [itv EXCEPT !.tlv_off = U32Add(itv.tlv_off, SizeofTlv + tlv.it_len)]

NextExhausted_Restart(itv, rd, iter) ==
    NextResult(1, [itv EXCEPT !.tlv_off = U32Add(BOOT_TLV_OFF(itv.hdr), SizeofInfo)],
               rd, 0, 0, 0, iter)

\* return 1: nothing is written but what the loop has written already.
NextExhausted(itv, rd, iter) == NextResult(1, itv, rd, 0, 0, 0, iter)

NextFound_NoAdvance(at, tlv, rd, iter) ==
    NextResult(0, at, rd, U32Add(at.tlv_off, SizeofTlv), tlv.it_len,
               tlv.it_type, iter)

\* The body of the match: *type, *off, *len are written, the cursor moves
\* past the record, 0 is returned.
NextFound(at, tlv, rd, iter) ==
    NextResult(0, PastRecord(at, tlv), rd, U32Add(at.tlv_off, SizeofTlv),
               tlv.it_len, tlv.it_type, iter)

\* The while loop; prev is tlv_off at the start of the previous iteration.
RECURSIVE NextLoop(_, _, _, _)
NextLoop(itv, rd, fail, prev) ==
    IF ~U32Lt(itv.tlv_off, itv.tlv_end)
    THEN NextExhausted(itv, rd, prev)
    ELSE
      LET at == [itv EXCEPT !.tlv_off = SkipInfo(itv)]
          rd2 == Append(rd, at.tlv_off)
          tlv == LoadTlv(at.tlv_off)
      IN
      IF ~ReadOk(at.tlv_off, Len(rd), fail)
      THEN NextResult(-1, at, rd2, 0, 0, 0, itv.tlv_off)
      ELSE IF ProtExhausted(at)
      THEN NextExhausted(at, rd2, itv.tlv_off)
      ELSE IF TypeMatches(at, tlv)
      THEN NextFound(at, tlv, rd2, itv.tlv_off)
      ELSE NextLoop(PastRecord(at, tlv), rd2, fail, itv.tlv_off)

\* The caller passes a non-null type pointer.
tlv_iter_next(itp, itv, fail) ==
    IF itp = NULL \/ itv.hdr = NULL_HDR \/ itv.fap = NULL
    THEN NextResult(-1, itv, <<>>, 0, 0, 0, itv.tlv_off)
    ELSE NextLoop(itv, <<>>, fail, itv.tlv_off)

\* --------------------------------------------- bootutil_tlv_iter_is_prot

tlv_iter_is_prot_Le(itp, itv, off) ==
    IF itp = NULL \/ itv.hdr = NULL_HDR \/ itv.fap = NULL
    THEN -1
    ELSE IF off = itv.prot_end \/ U32Lt(off, itv.prot_end) THEN 1 ELSE 0

tlv_iter_is_prot(itp, itv, off) ==
    IF itp = NULL \/ itv.hdr = NULL_HDR \/ itv.fap = NULL
    THEN -1
    ELSE IF U32Lt(off, itv.prot_end) THEN 1 ELSE 0

\* ---------------------------------------------------------------- actions

\* The caller's struct image_tlv_iter before any begin.
ZeroIt ==
    [hdr |-> NULL_HDR, fap |-> NULL, type |-> 0, prot |-> FALSE,
     prot_end |-> 0, tlv_end |-> 0, tlv_off |-> 0]

NoCall ==
    [op |-> "none", rc |-> 0, args |-> <<>>, fail |-> 0, reads |-> <<>>,
     off |-> 0, len |-> 0, type |-> 0, filt |-> <<>>, iter |-> 0, from |-> 0]

\* The flash contents of the model: every well-formed trailer of at most
\* MaxRecs records with each tail, and every trailer of fewer records with
\* one 16-bit field overwritten.
Flashes(P, G) ==
    LET wf == { EncFlash(P, G, tail) : tail \in Tails }
        base == EncFlash(P, G, <<1, 0, 0, 0>>)
        mut == IF Len(P) + Len(G) = MaxRecs THEN {}
               ELSE { Mutate(base, p, v) :
                        p \in FieldOffsets(P, G), v \in MutVals } \ {base}
    IN { <<fl, TRUE>> : fl \in wf } \cup { <<fl, FALSE>> : fl \in mut }

Init ==
    /\ \E pg \in Layouts :
         \E f \in Flashes(pg[1], pg[2]) :
            /\ flash = f[1]
            /\ layout = [P |-> pg[1], G |-> pg[2], wf |-> f[2], base |-> 0]
    /\ it = ZeroIt
    /\ last = NoCall
    /\ begun = "none"
    /\ trace = <<>>
    /\ faulted = FALSE

\* Arguments of a begin call, <<it, hdr, fap, type, prot, fail>>: every
\* filter and flag with the headers that declare the encoded protected size
\* or none, one filter with the other headers (no trailer of the model
\* passes validation with them), the right header with a failing read, and
\* each pointer null.
BeginArgs ==
    ({"it"} \X {GoodHdr, Hdr(layout.base, 0)} \X {FAP} \X Filters \X BOOLEAN \X {0})
    \cup ({"it"} \X Headers \X {FAP} \X {IMAGE_TLV_ANY} \X {FALSE} \X {0})
    \cup ({"it"} \X {GoodHdr} \X {FAP} \X {IMAGE_TLV_ANY} \X {FALSE} \X (1..MaxFail))
    \cup { <<NULL, GoodHdr, FAP, IMAGE_TLV_ANY, FALSE, 0>>,
           <<"it", NULL_HDR, FAP, IMAGE_TLV_ANY, FALSE, 0>>,
           <<"it", GoodHdr, NULL, IMAGE_TLV_ANY, FALSE, 0>> }

\* A next call has been made on the iterator since the last successful begin.
\* Every function tests its pointers before it touches anything else, so the
\* calls with a null pointer are made before the scan starts only.
ScanStarted == trace # <<>> \/ faulted

Begin ==
    \E a \in BeginArgs :
      LET r == tlv_iter_begin(a[1], it, a[2], a[3], a[4], a[5], a[6])
      IN
      /\ (a[1] = NULL \/ a[2] = NULL_HDR \/ a[3] = NULL) => ~ScanStarted
      /\ it' = r.it
      /\ last' = [op |-> "begin", rc |-> r.rc, args |-> <<a[1], a[2], a[3]>>,
                  fail |-> a[6], reads |-> r.reads, off |-> 0, len |-> 0,
                  type |-> 0,
                  filt |-> IF r.rc = 0 THEN <<a[4], a[5]>> ELSE <<>>,
                  iter |-> 0, from |-> it.tlv_off]
      /\ begun' = IF a[1] = NULL \/ a[2] = NULL_HDR \/ a[3] = NULL THEN begun
                  ELSE IF r.rc = 0 THEN "ok"
                  ELSE IF begun \in {"ok", "stale"} THEN "stale"
                  ELSE "fail"
      /\ trace' = IF r.rc = 0 THEN <<>> ELSE trace
      /\ faulted' = IF r.rc = 0 THEN FALSE ELSE faulted
      /\ UNCHANGED <<flash, layout>>

\* A next call; the results of the calls the device did not interfere with
\* are kept in trace, a call with an injected failure marks the scan faulted.
IterNext ==
    \E a \in ({"it"} \X (0..MaxFail)) \cup {<<NULL, 0>>} :
      LET r == tlv_iter_next(a[1], it, a[2])
      IN
      /\ Len(trace) < MaxCalls
      /\ a[1] = NULL => ~ScanStarted
      /\ it' = r.it
      /\ last' = [op |-> "next", rc |-> r.rc, args |-> <<a[1]>>, fail |-> a[2],
                  reads |-> r.reads, off |-> r.off, len |-> r.len,
                  type |-> r.type, filt |-> <<>>, iter |-> r.iter,
                  from |-> it.tlv_off]
      /\ trace' = IF a[1] = NULL \/ a[2] # 0 THEN trace
                  ELSE Append(trace, [rc |-> r.rc, off |-> r.off,
                                      len |-> r.len, type |-> r.type])
      /\ faulted' = (faulted \/ a[2] # 0)
      /\ UNCHANGED <<flash, layout, begun>>

\* Offsets a caller asks about: the payload offset next has just returned, and
\* the end of the protected area.
ProbeOffsets ==
    {it.prot_end} \cup (IF last.op = "next" /\ last.rc = 0 THEN {last.off} ELSE {})

IsProt ==
    \E a \in ({"it"} \X ProbeOffsets) \cup {<<NULL, it.prot_end>>} :
      /\ last.op # "is_prot"
      /\ a[1] = NULL => ~ScanStarted
      /\ last' = [op |-> "is_prot", rc |-> tlv_iter_is_prot(a[1], it, a[2]),
                  args |-> <<a[1]>>, fail |-> 0, reads |-> <<>>, off |-> a[2],
                  len |-> 0, type |-> 0, filt |-> <<>>, iter |-> 0,
                  from |-> it.tlv_off]
      /\ UNCHANGED <<flash, layout, it, begun, trace, faulted>>

Next == Begin \/ IterNext \/ IsProt

Spec == Init /\ [][Next]_vars

\* The trailer at the top of a flash area of 2^32 - 1 bytes, the largest size
\* a uint32_t holds: the offsets of the trailer are the largest uint32_t
\* values, and uint32_t arithmetic on them can wrap around. The trailers are those of fewer than
\* MaxRecs records, well formed or with one field overwritten.
InitWrap ==
    /\ \E pg \in { l \in Layouts : Len(l[1]) + Len(l[2]) < MaxRecs } :
         \E f \in Flashes(pg[1], pg[2]) :
            /\ flash = f[1]
            /\ layout = [P |-> pg[1], G |-> pg[2], wf |-> f[2],
                         base |-> -Len(f[1]) - 1]
    /\ it = ZeroIt
    /\ last = NoCall
    /\ begun = "none"
    /\ trace = <<>>
    /\ faulted = FALSE

SpecWrap == InitWrap /\ [][Next]_vars

\* ----------------------------------------------------------------- claims

\* The iterator holds what a successful begin stored (a later begin may have
\* failed).
Initialized == begun \in {"ok", "stale"}

\* The call that returned last was op, made on the iterator.
OnIt(op) == last.op = op /\ last.args = <<"it">>

\* The records rs, the first header at offset at, as next reports them.
RECURSIVE Payloads(_, _)
Payloads(rs, at) ==
    IF rs = <<>> THEN <<>>
    ELSE <<[rc |-> 0, off |-> at + SizeofTlv, len |-> Head(rs).len,
            type |-> Head(rs).type]>>
         \o Payloads(Tail(rs), at + SizeofTlv + Head(rs).len)

ProtPayloads == Payloads(layout.P, TrailerStart + SizeofInfo)

GenPayloads ==
    Payloads(layout.G, TrailerStart + ProtSize(layout.P) + SizeofInfo)

\* The encoded records in physical order, protected ones first.
AllPayloads == ProtPayloads \o GenPayloads

IsType1(e) == e.type = 1

\* A scan of a well-formed trailer, begun last and not disturbed by the device.
CleanScan(type, prot) ==
    /\ layout.wf /\ begun = "ok" /\ ~faulted
    /\ it.type = type /\ it.prot = prot

\* The calls so far returned the records of want as Found, in order, and
\* Exhausted from then on.
TraceIs(want) ==
    \A i \in 1..Len(trace) :
        IF i <= Len(want) THEN trace[i] = want[i] ELSE trace[i].rc = 1

\* C1: on a well-formed trailer with N records of type T among others, a scan
\* with filter T and require_protected = false returns Found exactly N times,
\* at the payload offsets of those records in increasing order, and Exhausted
\* at the (N+1)-th call.
C1_FilterScanFindsExactlyN ==
    CleanScan(1, FALSE) => TraceIs(SelectSeq(AllPayloads, IsType1))

\* C2: on a well-formed trailer of K records a wildcard scan with
\* require_protected = false returns exactly the K encoded (offset, length,
\* type) triples in physical order, protected before general, and then
\* Exhausted; nothing at or after trailer_end is reported as a record.
C2_WildcardScanRoundTrip ==
    CleanScan(IMAGE_TLV_ANY, FALSE) => TraceIs(AllPayloads)

\* C3: under require_protected = true every payload offset returned by Found
\* is below protected_end, so is_protected returns true for it.
C3_ProtectedScanOffsetsAreProtected ==
    (\E type \in Filters : CleanScan(type, TRUE)) =>
        \A i \in 1..Len(trace) :
            trace[i].rc = 0 =>
                /\ trace[i].off < it.prot_end
                /\ tlv_iter_is_prot("it", it, trace[i].off) = 1

\* C4: under require_protected = true a next call that starts with the cursor
\* at or past protected_end returns Exhausted and reads nothing at or after
\* protected_end, whether or not such reads would succeed (stated for the
\* well-formed trailers that have a protected area).
C4_NoReadPastProtectedEnd ==
    (/\ layout.wf /\ begun = "ok" /\ OnIt("next") /\ it.prot
     /\ it.hdr.ih_protect_tlv_size > 0 /\ last.from >= it.prot_end) =>
        /\ last.rc = 1
        /\ \A k \in 1..Len(last.reads) : last.reads[k] < it.prot_end

\* The k-th read of the call that returned last succeeded.
ReadSucceeded(k) == InArea(last.reads[k]) /\ last.fail # k

\* The info record at off has magic m.
MagicAt(off, m) == Le16(off) = m

\* The trailer at the offset hdr gives has one of the two accepted shapes.
AcceptedShape(hdr) ==
    LET start == BOOT_TLV_OFF(hdr)
        psize == hdr.ih_protect_tlv_size
    IN \/ /\ MagicAt(start, IMAGE_TLV_PROT_INFO_MAGIC)
          /\ Le16(start + 2) = psize
          /\ MagicAt(start + psize, IMAGE_TLV_INFO_MAGIC)
       \/ /\ MagicAt(start, IMAGE_TLV_INFO_MAGIC)
          /\ psize = 0

\* C5: begin succeeds if and only if all inputs are present, every read it
\* issues succeeds, and the trailer has one of the two accepted shapes.
C5_BeginSucceedsIffAcceptedShape ==
    last.op = "begin" =>
        (last.rc = 0 <=>
            /\ last.args[1] # NULL /\ last.args[2] # NULL_HDR /\ last.args[3] # NULL
            /\ \A k \in 1..Len(last.reads) : ReadSucceeded(k)
            /\ AcceptedShape(last.args[2]))

\* A begin that succeeded on a trailer with a protected area.
C5_Witness ==
    /\ last.op = "begin" /\ last.rc = 0 /\ Len(last.reads) = 2
    /\ last.args[2].ih_protect_tlv_size > 0

\* C6: next and is_protected return an error on an iterator that was never
\* successfully initialized or whose most recent begin failed, also when an
\* earlier begin on the same iterator had succeeded.
C6_ErrorUnlessLastBeginSucceeded ==
    ((OnIt("next") \/ OnIt("is_prot")) /\ begun # "ok") => last.rc = -1

\* A next call crossed from the protected into the general sub-area and
\* returned a general record.
C7_Witness ==
    /\ begun = "ok" /\ OnIt("next") /\ last.rc = 0
    /\ it.hdr.ih_protect_tlv_size > 0 /\ last.off > it.prot_end

\* C7: once a begin has succeeded, protected_end <= trailer_end; next and
\* is_protected change neither protected_end, trailer_end, the filter nor the
\* flag, and never move the cursor backwards.
C7_BoundsFixedCursorMonotone ==
    [][/\ Initialized' => it'.prot_end <= it'.tlv_end
       /\ (Initialized /\ last'.op \in {"next", "is_prot"}) =>
            /\ it'.prot_end = it.prot_end /\ it'.tlv_end = it.tlv_end
            /\ it'.type = it.type /\ it'.prot = it.prot
            /\ it'.hdr = it.hdr /\ it'.fap = it.fap
            /\ it'.tlv_off >= it.tlv_off]_vars

\* Payload offsets of the records of the general sub-area.
GenOffsets == { GenPayloads[i].off : i \in 1..Len(GenPayloads) }

\* is_protected was asked about a general record that next had just returned.
C8_Witness ==
    /\ layout.wf /\ begun = "ok" /\ OnIt("is_prot")
    /\ last.off \in GenOffsets /\ last.rc = 0
    /\ \E i \in 1..Len(trace) : trace[i].rc = 0 /\ trace[i].off = last.off

\* C8: on an initialized iterator is_protected returns true exactly for the
\* offsets below protected_end and false for the others, among them the
\* payload offsets of the general records; it reads nothing and changes no
\* field of the iterator.
C8_IsProtPureMembership ==
    [][(Initialized /\ last'.op = "is_prot" /\ last'.args = <<"it">>) =>
          /\ last'.rc = (IF last'.off < it.prot_end THEN 1 ELSE 0)
          /\ (layout.wf /\ last'.off \in GenOffsets) => last'.rc = 0
          /\ last'.reads = <<>>
          /\ it' = it /\ flash' = flash]_vars

\* C9: whatever the flash holds, every record next reports lies inside the
\* trailer, and next reads no TLV header that starts at or after trailer_end.
C9_RecordsInsideTrailer ==
    (begun = "ok" /\ OnIt("next")) =>
        /\ \A i \in 1..Len(trace) :
              trace[i].rc = 0 =>
                 /\ BOOT_TLV_OFF(it.hdr) + SizeofInfo + SizeofTlv <= trace[i].off
                 /\ trace[i].off + trace[i].len <= it.tlv_end
        /\ \A k \in 1..Len(last.reads) : last.reads[k] < it.tlv_end

\* A read of the call that returned last failed.
SomeReadFailed == \E k \in 1..Len(last.reads) : ~ReadSucceeded(k)

\* C10 as stated: when a read inside next fails, next returns an error and the
\* cursor has the value it had at the start of the loop iteration of that
\* read, also in the iteration that starts on protected_end.
C10_CursorLeftAtIterationStart ==
    (Initialized /\ OnIt("next") /\ SomeReadFailed) =>
        /\ last.rc = -1
        /\ it.tlv_off = last.iter

\* The failing read was the one of the iteration that starts on the end of a
\* protected area.
C10_Witness ==
    /\ begun = "ok" /\ OnIt("next") /\ SomeReadFailed
    /\ it.hdr.ih_protect_tlv_size > 0 /\ last.iter = it.prot_end
    /\ Len(last.reads) = 2

\* C10 amended: when a read inside next fails, next returns an error at once
\* (the failed read is its last) and the cursor is the offset of the failed
\* read: the value at the start of that loop iteration, plus the size of the
\* info record when the iteration starts on the end of a protected area.
C10_CursorLeftAtFailedRead ==
    (Initialized /\ OnIt("next") /\ SomeReadFailed) =>
        /\ last.rc = -1
        /\ ReadSucceeded(Len(last.reads)) = FALSE
        /\ \A k \in 1..(Len(last.reads) - 1) : ReadSucceeded(k)
        /\ it.tlv_off = last.reads[Len(last.reads)]
        /\ it.tlv_off =
              (IF it.hdr.ih_protect_tlv_size > 0 /\ last.iter = it.prot_end
               THEN last.iter + SizeofInfo ELSE last.iter)

\* A begin with filter 1 and require_protected = true succeeded on a trailer
\* that starts with a protected-info record.
C11_Witness ==
    /\ last.op = "begin" /\ last.rc = 0 /\ last.filt = <<1, TRUE>>
    /\ MagicAt(BOOT_TLV_OFF(last.args[2]), IMAGE_TLV_PROT_INFO_MAGIC)

\* C11: after a successful begin with trailer start offset area_start,
\* protected_end = area_start + the header's protected size, trailer_end =
\* protected_end + the total length of the plain-info record, cursor =
\* area_start + the size of an info record, the header, the flash area, the
\* filter and the flag are the ones passed, and begin made one read when the
\* first magic is not protected-info and two reads when it is.
C11_BeginStoresExactly ==
    (last.op = "begin" /\ last.rc = 0) =>
        LET area_start == BOOT_TLV_OFF(last.args[2])
            psize == last.args[2].ih_protect_tlv_size
        IN
        /\ it.hdr = last.args[2] /\ it.fap = last.args[3]
        /\ it.type = last.filt[1] /\ it.prot = last.filt[2]
        /\ it.prot_end = area_start + psize
        /\ it.tlv_end = it.prot_end + Le16(area_start + psize + 2)
        /\ it.tlv_off = area_start + SizeofInfo
        /\ Len(last.reads) =
              (IF MagicAt(area_start, IMAGE_TLV_PROT_INFO_MAGIC) THEN 2 ELSE 1)

\* A scan with filter 1 skipped a record of another type and found a record
\* with a payload.
C12_Witness ==
    /\ begun = "ok" /\ OnIt("next") /\ last.rc = 0
    /\ it.type = 1 /\ Len(last.reads) = 2 /\ last.len = 1

\* C12: when next returns Found for the record header it read at cursor c,
\* the payload offset is c + the size of a TLV header, the length and the
\* type are the ones of that header, the type is the filter unless the
\* filter is the wildcard, and the cursor after the call is the payload
\* offset + the length.
C12_FoundReportsRecordAtCursor ==
    (Initialized /\ OnIt("next") /\ last.rc = 0) =>
        LET c == last.reads[Len(last.reads)]
        IN
        /\ last.off = c + SizeofTlv
        /\ last.len = Le16(c + 2)
        /\ last.type = Le16(c)
        /\ it.type # IMAGE_TLV_ANY => last.type = it.type
        /\ it.tlv_off = last.off + last.len

\* The outcomes of n next calls on the iterator itv, no read failing.
RECURSIVE Replay(_, _)
Replay(itv, n) ==
    IF n = 0 THEN <<>>
    ELSE LET r == tlv_iter_next("it", itv, 0)
         IN <<[rc |-> r.rc, off |-> r.off, len |-> r.len, type |-> r.type]>>
            \o Replay(r.it, n - 1)

\* A second iterator, begun with the header, flash area, filter and flag of
\* the first.
SecondIt == tlv_iter_begin("it", ZeroIt, it.hdr, it.fap, it.type, it.prot, 0).it

U32Advanced(a, b, d) ==
    IF (a < 0) = (b < 0) THEN b - a >= d
    ELSE /\ b < 0
         /\ \/ b + MaxInt32 + 1 >= d
            \/ MaxInt32 - a >= d
            \/ (b + MaxInt32 + 1) + (MaxInt32 - a) + 1 >= d

\* (trailer_end - cursor) / size_of(TLV header) + 1, the reads a call that
\* starts at cursor may make; none when the cursor is at or past trailer_end.
ReadBound(cursor, end) ==
    IF ~U32Lt(cursor, end) THEN 0
    ELSE IF (cursor < 0) = (end < 0) THEN (end - cursor) \div SizeofTlv + 1
    ELSE MaxInt32

\* C14: in every next call on an initialized iterator each loop iteration
\* leaves the cursor at least the size of a TLV header further (the reads of
\* a call are that far apart, and so is the cursor after a Found from the
\* last read), also when cursor + header size + length exceeds 2^32 - 1, and
\* the call makes at most (trailer_end - cursor) / size_of(TLV header) + 1
\* reads.
C14_EveryIterationAdvances ==
    (Initialized /\ OnIt("next")) =>
        /\ \A k \in 1..(Len(last.reads) - 1) :
              U32Advanced(last.reads[k], last.reads[k + 1], SizeofTlv)
        /\ last.rc = 0 =>
              U32Advanced(last.reads[Len(last.reads)], it.tlv_off, SizeofTlv)
        /\ Len(last.reads) <= ReadBound(last.from, it.tlv_end)

C16_Witness ==
    /\ begun = "ok" /\ ~faulted /\ it.prot /\ layout.wf
    /\ layout.P # <<>> /\ layout.G # <<>>
    /\ Len(trace) = MaxCalls
    /\ trace[MaxCalls - 1].rc = 1 /\ trace[MaxCalls].rc = 1

\* C16: once a next call on an initialized iterator has returned Exhausted,
\* every later next call whose reads succeed returns Exhausted, whether the
\* scan ended at trailer_end or at protected_end.
C16_ExhaustedIsFinal ==
    Initialized =>
        \A i, j \in 1..Len(trace) :
            (i < j /\ trace[i].rc = 1) => trace[j].rc = 1

\* A begin failed after its second read, on an iterator whose cursor an
\* earlier scan had moved.
C17_Witness ==
    /\ last.op = "begin" /\ last.rc = -1 /\ begun = "stale"
    /\ Len(last.reads) = 2
    /\ it.tlv_off # BOOT_TLV_OFF(it.hdr) + SizeofInfo

\* C17: a begin call that fails (a null input, a failed read, a format
\* mismatch) leaves every field of the iterator as it was before the call.
C17_FailedBeginWritesNothing ==
    [][(last'.op = "begin" /\ last'.rc # 0) => it' = it]_vars

====
